---- MODULE Spec2Model ----
(***************************************************************************)
(* A model of byday.py: a stream of timestamped entries is folded into      *)
(* rows of buckets (DataRow), one row per time window chosen by a printer   *)
(* (Minute/Hour/Day/MonthPrinter), each bucket an Accumulator.              *)
(*                                                                         *)
(* Time is modelled at a resolution of one second (microseconds are         *)
(* dropped).  A datetime is a record of its calendar fields, as in Python;  *)
(* tz is <<>> for a naive datetime and <<m>> for a fixed UTC offset of m    *)
(* minutes.  The local zone is a fixed offset (no DST transitions).         *)
(***************************************************************************)
EXTENDS Integers, Sequences, FiniteSets, TLC

VARIABLES
    printer,      \* class of the renderer: "MinutePrinter", "HourPrinter", ...
    length,       \* DataRow.length (number of buckets)
    accumType,    \* DataRow.accumType
    ITZ,          \* Renderer.ITZ: <<>> (None) or <<offset>>
    OTZ,          \* Renderer.OTZ: <<>> (None = local) or <<offset>>
    localtz,      \* UTC offset (minutes) of the system's local zone
    scale,        \* IntervalPrinter.scale: <<>> (None) or <<the axis>>
    start,        \* DataRow.start (None before the first entry)
    finish,       \* DataRow.finish
    duration_s,   \* DataRow.duration_s
    context,      \* DataRow.context
    buckets,      \* DataRow.buckets
    lastStart,    \* IntervalPrinter.lastStart
    lastBlockHeader, \* MinutePrinter.lastBlockHeader
    stdout,       \* the lines printed so far
    pc,           \* SummarizeLogFile: "reading" or "done" (after r.end())
    nread,        \* number of lines read so far
    line,         \* the line read last, as parsed: NoMatch or [ts, entry]
    d,            \* DataRow._getAccumFor: the bucket index resolved last
    rowEntries,   \* history: d, ts, entry and the timestamp as parsed (raw)
                  \* of the entries of the open row
    nrows,        \* history: number of rows opened so far (DataRow.reset calls)
    cells,        \* aggregates constructed and updated directly
    cellCtx,      \* the context those aggregates share
    cellLog,      \* history: <<cell, entry>> of the direct update calls
    probe         \* argument and result of a direct call; the locals of __main__

cfgVars == <<printer, length, accumType, ITZ, OTZ, localtz, scale>>
rowVars == <<start, finish, duration_s, context, buckets, d, rowEntries, nrows>>
outVars == <<lastStart, lastBlockHeader, stdout>>
runVars == <<pc, nread, line>>
cellVars == <<cells, cellCtx, cellLog>>
vars == <<cfgVars, rowVars, outVars, runVars, cellVars, probe>>

----------------------------------------------------------------------------
(* datetime, timedelta *)

\* the value of a datetime attribute that is None
None == [year |-> 0, month |-> 0, day |-> 0, hour |-> 0, minute |-> 0,
         second |-> 0, tz |-> <<>>]

DateTime(y, mo, dd, h, mi, s, z) ==
    [year |-> y, month |-> mo, day |-> dd, hour |-> h, minute |-> mi,
     second |-> s, tz |-> z]

IsLeap(y) == (y % 4 = 0 /\ y % 100 # 0) \/ y % 400 = 0

DaysInMonth(y, m) ==
    IF m = 2 THEN (IF IsLeap(y) THEN 29 ELSE 28)
    ELSE IF m \in {4, 6, 9, 11} THEN 30 ELSE 31

\* days before January 1st of year y (proleptic Gregorian ordinal)
DaysBeforeYear(y) ==
    (y - 1) * 365 + ((y - 1) \div 4) - ((y - 1) \div 100) + ((y - 1) \div 400)

RECURSIVE DaysBeforeMonth(_, _)
DaysBeforeMonth(y, m) ==
    IF m = 1 THEN 0 ELSE DaysBeforeMonth(y, m - 1) + DaysInMonth(y, m - 1)

\* date.toordinal()
ToOrdinal(t) == DaysBeforeYear(t.year) + DaysBeforeMonth(t.year, t.month) + t.day

SecondOfDay(t) == t.hour * 3600 + t.minute * 60 + t.second

\* date.fromordinal(n) combined with a second of the day, in zone z
FromOrdinal(n, sod, z) ==
    LET y == CHOOSE yy \in (n \div 366)..(n \div 365 + 1) :
                 DaysBeforeYear(yy) < n /\ n <= DaysBeforeYear(yy + 1)
        r == n - DaysBeforeYear(y)
        m == CHOOSE mm \in 1..12 :
                 DaysBeforeMonth(y, mm) < r
                 /\ r <= DaysBeforeMonth(y, mm) + DaysInMonth(y, mm)
    IN DateTime(y, m, r - DaysBeforeMonth(y, m),
                sod \div 3600, (sod % 3600) \div 60, sod % 60, z)

\* datetime + timedelta(seconds=n): wall-clock arithmetic, tzinfo kept
AddSeconds(t, n) ==
    LET total == SecondOfDay(t) + n
    IN FromOrdinal(ToOrdinal(t) + (total \div 86400), total % 86400, t.tz)

\* the UTC offset, in seconds, by which two datetimes are compared
OffsetSeconds(t) == IF t.tz = <<>> THEN 0 ELSE t.tz[1] * 60

\* (a - b).total_seconds()
TotalSeconds(a, b) ==
    (ToOrdinal(a) - ToOrdinal(b)) * 86400 + (SecondOfDay(a) - SecondOfDay(b))
    - (OffsetSeconds(a) - OffsetSeconds(b))

\* a < b on datetimes
Before(a, b) == TotalSeconds(a, b) < 0

\* datetime.astimezone(tz); a naive datetime is taken to be local time,
\* tz None is the local zone
AsTimezone(t, z, loc) ==
    LET from == IF t.tz = <<>> THEN <<loc>> ELSE t.tz
        to == IF z = <<>> THEN <<loc>> ELSE z
        moved == AddSeconds(t, (to[1] - from[1]) * 60)
    IN [moved EXCEPT !.tz = to]

----------------------------------------------------------------------------
(* string formatting *)

DIGITS == <<"0", "1", "2", "3", "4", "5", "6", "7", "8", "9",
            "a", "b", "c", "d", "e", "f">>

RECURSIVE DecimalNat(_)
DecimalNat(n) ==
    IF n < 10 THEN DIGITS[n + 1] ELSE DecimalNat(n \div 10) \o DIGITS[(n % 10) + 1]

\* "%d" % n
Decimal(n) == IF n < 0 THEN "-" \o DecimalNat(0 - n) ELSE DecimalNat(n)

\* "%1x" % n, n >= 0
RECURSIVE Hex(_)
Hex(n) == IF n < 16 THEN DIGITS[n + 1] ELSE Hex(n \div 16) \o DIGITS[(n % 16) + 1]

\* "%02d" % n
Decimal02(n) == IF Len(Decimal(n)) < 2 THEN "0" \o Decimal(n) ELSE Decimal(n)

\* the first character of a non-empty string of digits and sign
RECURSIVE FirstCharNat(_)
FirstCharNat(n) == IF n < 10 THEN DIGITS[n + 1] ELSE FirstCharNat(n \div 10)

\* strftime("%Y") for a four-digit year
Year4(y) == Decimal(y)

\* strftime("%b"), C locale
MonthAbbr(m) ==
    <<"Jan", "Feb", "Mar", "Apr", "May", "Jun",
      "Jul", "Aug", "Sep", "Oct", "Nov", "Dec">>[m]

----------------------------------------------------------------------------
(* Counted, Ordered, Additive, Stats: the running aggregate.  An attribute *)
(* that is None is <<>>, a number v is <<v>>.                              *)

NewStats ==
    [count |-> 0, first |-> <<>>, last |-> <<>>, min |-> <<>>, max |-> <<>>,
     sum |-> <<>>, sum2 |-> 0]

\* Counted.update(value), value not a Counted
CountedUpdate(s, v) ==
    [s EXCEPT !.first = IF s.first = <<>> THEN <<v>> ELSE s.first,
              !.last = <<v>>,
              !.count = s.count + 1]

\* Ordered.update(value), value not an Ordered
OrderedUpdate(s, v) ==
    LET c == CountedUpdate(s, v)
    IN [c EXCEPT !.min = IF c.min = <<>> \/ v < c.min[1] THEN <<v>> ELSE c.min,
                 !.max = IF c.max = <<>> \/ v > c.max[1] THEN <<v>> ELSE c.max]

\* Additive.update(value)
AdditiveUpdate(s, v) ==
    LET o == OrderedUpdate(s, v)
    IN [o EXCEPT !.sum = IF o.sum = <<>> THEN <<v>> ELSE <<o.sum[1] + v>>]

\* Stats.update(value)
StatsUpdate(s, v) ==
    LET a == AdditiveUpdate(s, v)
    IN [a EXCEPT !.sum2 = a.sum2 + v * v]

\* update(value) with value an aggregate of the same class: the aggregate
\* after the call, whether the call raised, and whether sum was bound to
\* the other aggregate itself (the object, not a number)
Merged(s, raised, sumObject) ==
    [agg |-> s, raised |-> raised, sumObject |-> sumObject]

\* Counted.update(value), value a Counted
CountedMerge(s, o) ==
    [s EXCEPT !.first = IF s.first = <<>> THEN o.first ELSE s.first,
              !.last = o.last,
              !.count = s.count + o.count]

\* Ordered.update(value), value an Ordered
OrderedMerge(s, o) ==
    LET c == CountedMerge(s, o)
    IN [c EXCEPT
          !.min = IF c.min = <<>> \/ (o.min # <<>> /\ o.min[1] < c.min[1])
                  THEN o.min ELSE c.min,
          !.max = IF c.max = <<>> \/ (o.max # <<>> /\ o.max[1] > c.max[1])
                  THEN o.max ELSE c.max]

\* Additive.update(value), value an Additive: after Ordered.update, sum is
\* bound to value when it is None, else sum+=value raises TypeError
AdditiveMerge(s, o) ==
    IF s.sum = <<>> THEN Merged(OrderedMerge(s, o), FALSE, TRUE)
    ELSE Merged(OrderedMerge(s, o), TRUE, FALSE)

\* Stats.update(value), value a Stats: float(value) raises TypeError
StatsMerge(s, o) == Merged(s, TRUE, FALSE)

Levels == <<"Counted", "Ordered", "Additive", "Stats">>

\* update(value) of the class of that level, value not an aggregate; the
\* attributes a class does not have are left as NewStats has them
UpdateAt(level, s, v) ==
    IF level = "Counted" THEN CountedUpdate(s, v)
    ELSE IF level = "Ordered" THEN OrderedUpdate(s, v)
    ELSE IF level = "Additive" THEN AdditiveUpdate(s, v)
    ELSE StatsUpdate(s, v)

\* a.update(b) of the class of that level, b an aggregate of that class
MergeAt(level, a, b) ==
    IF level = "Counted" THEN Merged(CountedMerge(a, b), FALSE, FALSE)
    ELSE IF level = "Ordered" THEN Merged(OrderedMerge(a, b), FALSE, FALSE)
    ELSE IF level = "Additive" THEN AdditiveMerge(a, b)
    ELSE StatsMerge(a, b)

\* the aggregate of that level after update(v) for each v of vs, in order
RECURSIVE Fold(_, _)
Fold(level, vs) ==
    IF vs = <<>> THEN NewStats
    ELSE UpdateAt(level, Fold(level, SubSeq(vs, 1, Len(vs) - 1)), vs[Len(vs)])

----------------------------------------------------------------------------
(* Accumulator and its subclasses *)

AccumTypes ==
    {"Accumulator", "BitmaskAccum", "StatsAccum", "WebAccum", "PriorityEventsAccum"}

\* accumType.contextType()
NewContext(type) ==
    IF type = "BitmaskAccum"
    THEN [kind |-> "BitmaskContext", seentoday |-> <<>>, bucket_duration_s |-> <<>>]
    ELSE IF type \in {"StatsAccum", "WebAccum"}
    THEN [kind |-> "StatsContext", stats |-> NewStats, bucket_duration_s |-> <<>>]
    ELSE [kind |-> "Context", bucket_duration_s |-> <<>>]

\* accumType(context)
NewAccum(type) ==
    IF type = "BitmaskAccum" THEN [initialized |-> FALSE, mask |-> 0]
    ELSE IF type \in {"StatsAccum", "WebAccum"}
    THEN [initialized |-> FALSE, stat |-> NewStats]
    ELSE IF type = "PriorityEventsAccum"
    THEN [initialized |-> FALSE, prio |-> -999999, symb |-> "?", count |-> 0]
    ELSE [initialized |-> FALSE]

\* Accumulator.update
AccumulatorUpdate(a) == [a EXCEPT !.initialized = TRUE]

\* Accumulator.format
AccumulatorFormat(a) == IF a.initialized THEN "-" ELSE " "

\* list.index(entry), 0-based; Len(seen) when the entry is not in the list
IndexIn(seen, e) ==
    IF \E i \in 1..Len(seen) : seen[i] = e
    THEN (CHOOSE i \in 1..Len(seen) :
              seen[i] = e /\ \A j \in 1..(i - 1) : seen[j] # e) - 1
    ELSE Len(seen)

\* BitmaskContext.process appending without the lookup
BitmaskProcessAppend(seen, e) == Append(seen, e)

\* BitmaskContext.process: the list after the call (the index is IndexIn)
BitmaskProcess(seen, e) ==
    IF IndexIn(seen, e) < Len(seen) THEN seen ELSE Append(seen, e)

RECURSIVE Pow2(_)
Pow2(i) == IF i = 0 THEN 1 ELSE 2 * Pow2(i - 1)

\* mask | (1 << i)
BitOr(mask, i) ==
    IF (mask \div Pow2(i)) % 2 = 1 THEN mask ELSE mask + Pow2(i)

\* BitmaskAccum.update: the loop over the entries
RECURSIVE BitmaskLoop(_, _, _)
BitmaskLoop(mask, seen, entries) ==
    IF entries = <<>> THEN [mask |-> mask, seentoday |-> seen]
    ELSE IF Head(entries) = "" THEN BitmaskLoop(mask, seen, Tail(entries))
    ELSE BitmaskLoop(BitOr(mask, IndexIn(seen, Head(entries))),
                     BitmaskProcess(seen, Head(entries)), Tail(entries))

BitmaskUpdate(a, ctx, entries) ==
    LET r == BitmaskLoop(a.mask, ctx.seentoday, entries)
    IN [acc |-> [AccumulatorUpdate(a) EXCEPT !.mask = r.mask],
        ctx |-> [ctx EXCEPT !.seentoday = r.seentoday]]

\* "?" and the glyphs U+2580 (upper half block), U+2584 (lower half block),
\* U+2588 (full block), written here as the ASCII characters ^ _ #
QUADRANTS == <<"?", "^", "_", "#">>
\* the glyph U+2261 (identical to), written here as ~
OVERFLOW == "~"

\* BitmaskAccum.format with "%d" for "%1x"
BitmaskFormatDecimal(a) ==
    IF a.mask > 15 THEN OVERFLOW
    ELSE IF a.mask > 3 THEN Decimal(a.mask)
    ELSE IF a.mask > 0 THEN QUADRANTS[a.mask + 1]
    ELSE AccumulatorFormat(a)

\* BitmaskAccum.format without the overflow glyph
BitmaskFormatNoOverflow(a) ==
    IF a.mask > 3 THEN Hex(a.mask)
    ELSE IF a.mask > 0 THEN QUADRANTS[a.mask + 1]
    ELSE AccumulatorFormat(a)

\* BitmaskAccum.format
BitmaskFormat(a) ==
    IF a.mask > 15 THEN OVERFLOW
    ELSE IF a.mask > 3 THEN Hex(a.mask)
    ELSE IF a.mask > 0 THEN QUADRANTS[a.mask + 1]
    ELSE AccumulatorFormat(a)

\* j.join(seentoday)
RECURSIVE Join(_, _)
Join(j, seq) ==
    IF seq = <<>> THEN ""
    ELSE IF Len(seq) = 1 THEN seq[1]
    ELSE seq[1] \o j \o Join(j, Tail(seq))

\* BitmaskContext.format
BitmaskContextFormat(ctx) ==
    LET seen == ctx.seentoday
        j == IF Len(seen) > 0 /\ \A i \in 1..Len(seen) : Len(seen[i]) <= 1
             THEN "" ELSE ","
    IN ":" \o Join(j, seen)

\* StatsAccum.update
StatsAccumUpdate(a, ctx, number) ==
    [acc |-> [AccumulatorUpdate(a) EXCEPT !.stat = StatsUpdate(a.stat, number)],
     ctx |-> [ctx EXCEPT !.stats = StatsUpdate(ctx.stats, number)]]

\* StatsAccum.format with "%d" for "%02d"
StatsAccumFormatNoPad(a) ==
    IF a.stat.count = 0 THEN AccumulatorFormat(a)
    ELSE IF a.stat.max[1] < 0 THEN "-"
    ELSE FirstCharNat(a.stat.max[1])

\* StatsAccum.format
StatsAccumFormat(a) ==
    IF a.stat.count = 0 THEN AccumulatorFormat(a)
    ELSE IF a.stat.max[1] < 0 THEN "-"
    ELSE IF a.stat.max[1] < 10 THEN "0"
    ELSE FirstCharNat(a.stat.max[1])

IGNOREIP == {"127.0.0.1"}

\* re.search('"(\S+)\s+(\S+)\s*(\S*)"\s*(\d+)', rq): <<>> when there is no
\* match, <<int(code)>> otherwise, for the request strings of the model
RqCode(rq) ==
    IF rq = "\"GET / HTTP/1.1\" 200 -" THEN <<200>>
    ELSE IF rq = "\"GET /x HTTP/1.1\" 404 -" THEN <<404>>
    ELSE IF rq = "\"GET / HTTP/1.1\" 0 -" THEN <<0>>
    ELSE <<>>

\* WebAccum.update
WebAccumUpdate(a, ctx, data) ==
    IF data[1] \in IGNOREIP THEN [acc |-> a, ctx |-> ctx]
    ELSE IF RqCode(data[2]) = <<>> THEN [acc |-> a, ctx |-> ctx]
    ELSE StatsAccumUpdate(a, ctx, RqCode(data[2])[1])

\* WebAccum.format
WebAccumFormat(a) ==
    IF ~a.initialized THEN " "
    ELSE IF a.stat.count = 0 THEN "-"
    ELSE IF a.stat.max[1] = 0 THEN "?"
    ELSE Decimal(a.stat.max[1] \div 100)

\* PriorityEventsAccum.update, entry a pair (prio, symb)
PriorityUpdate(a, entry) ==
    LET u == AccumulatorUpdate(a)
    IN IF entry[1] > u.prio
       THEN [u EXCEPT !.symb = entry[2], !.prio = entry[1], !.count = 0]
       ELSE IF entry[1] = u.prio
       THEN [u EXCEPT !.symb = entry[2], !.count = u.count + 1]
       ELSE u

\* PriorityEventsAccum.format
PriorityFormat(a) == IF a.initialized THEN a.symb ELSE " "

\* a.update(entry) for an aggregate a of class type: the aggregate and the
\* shared context after the call
Update(type, a, ctx, entry) ==
    IF type = "BitmaskAccum" THEN BitmaskUpdate(a, ctx, entry)
    ELSE IF type = "StatsAccum" THEN StatsAccumUpdate(a, ctx, entry)
    ELSE IF type = "WebAccum" THEN WebAccumUpdate(a, ctx, entry)
    ELSE IF type = "PriorityEventsAccum"
    THEN [acc |-> PriorityUpdate(a, entry), ctx |-> ctx]
    ELSE [acc |-> AccumulatorUpdate(a), ctx |-> ctx]

\* a.format()
Format(type, a) ==
    IF type = "BitmaskAccum" THEN BitmaskFormat(a)
    ELSE IF type = "StatsAccum" THEN StatsAccumFormat(a)
    ELSE IF type = "WebAccum" THEN WebAccumFormat(a)
    ELSE IF type = "PriorityEventsAccum" THEN PriorityFormat(a)
    ELSE AccumulatorFormat(a)

\* context.format(): the legend of a row
ContextFormat(ctx) ==
    IF ctx.kind = "BitmaskContext" THEN BitmaskContextFormat(ctx) ELSE ""

----------------------------------------------------------------------------
(* Renderer, IntervalPrinter and the four printers *)

Printers == {"MinutePrinter", "HourPrinter", "DayPrinter", "MonthPrinter"}

\* the duration, in seconds, each printer passes to IntervalPrinter.__init__
RowDuration(p) ==
    IF p = "MinutePrinter" THEN 60
    ELSE IF p = "HourPrinter" THEN 3600
    ELSE IF p = "DayPrinter" THEN 86400
    ELSE 31 * 86400

\* startFor with DayPrinter truncating as HourPrinter does
startForDayAsHour(p, ts) ==
    IF p = "MinutePrinter" THEN [ts EXCEPT !.second = 0]
    ELSE [ts EXCEPT !.minute = 0, !.second = 0]

\* startFor of Minute-, Hour- and DayPrinter
startFor(p, ts) ==
    IF p = "MinutePrinter" THEN [ts EXCEPT !.second = 0]
    ELSE IF p = "HourPrinter" THEN [ts EXCEPT !.minute = 0, !.second = 0]
    ELSE [ts EXCEPT !.hour = 0, !.minute = 0, !.second = 0]

\* MonthPrinter.setRangeFor: the loop over the month lengths; None when no
\* length ends on a first of the month (assert False)
RECURSIVE MonthFinish(_, _)
MonthFinish(st, mls) ==
    IF mls = <<>> THEN None
    ELSE IF AddSeconds(st, Head(mls) * 86400).day = 1
    THEN AddSeconds(st, Head(mls) * 86400)
    ELSE MonthFinish(st, Tail(mls))

\* MonthPrinter.setRangeFor: the start of the row of ts
MonthStart(ts) == [ts EXCEPT !.day = 1, !.hour = 0, !.minute = 0, !.second = 0]

\* setRangeFor with MonthPrinter ending the row after rowDuration, as
\* Renderer.setRangeFor does
setRangeForFixed(p, ts) ==
    IF p = "MonthPrinter"
    THEN [start |-> MonthStart(ts),
          finish |-> AddSeconds(MonthStart(ts), RowDuration(p)),
          duration_s |-> RowDuration(p)]
    ELSE [start |-> startFor(p, ts),
          finish |-> AddSeconds(startFor(p, ts), RowDuration(p)),
          duration_s |-> RowDuration(p)]

\* setRangeFor(ts, dr): the start, finish and duration_s it sets on the row
setRangeFor(p, ts) ==
    IF p = "MonthPrinter"
    THEN [start |-> MonthStart(ts),
          finish |-> MonthFinish(MonthStart(ts), <<28, 29, 30, 31>>),
          duration_s |-> RowDuration(p)]
    ELSE [start |-> startFor(p, ts),
          finish |-> AddSeconds(startFor(p, ts), RowDuration(p)),
          duration_s |-> RowDuration(p)]

\* Renderer.process without ts.replace(tzinfo=self.ITZ)
NormalizeNoITZ(ts, itz, otz, loc) == AsTimezone(ts, otz, loc)

\* Renderer.process: the timestamp handed to DataRow.process
Normalize(ts, itz, otz, loc) ==
    AsTimezone(IF ts.tz = <<>> THEN [ts EXCEPT !.tz = itz] ELSE ts, otz, loc)

\* _formatRowHeader
FormatRowHeader(p, ts) ==
    IF p = "MinutePrinter" THEN " :" \o Decimal02(ts.minute) \o "'"
    ELSE IF p = "HourPrinter" THEN Decimal02(ts.hour) \o ":"
    ELSE IF p = "DayPrinter" THEN Decimal02(ts.day) \o "|"
    ELSE " " \o MonthAbbr(ts.month) \o "|"

\* _formatBlockHeader; lbh is MinutePrinter.lastBlockHeader
FormatBlockHeader(p, lbh, st) ==
    IF p = "MinutePrinter"
    THEN IF lbh = None \/ lbh.day # st.day \/ lbh.month # st.month
            \/ lbh.year # st.year
         THEN Year4(st.year) \o "-" \o Decimal02(st.month) \o "-"
              \o Decimal02(st.day) \o " " \o Decimal02(st.hour) \o ":"
              \o Decimal02(st.minute)
         ELSE Decimal02(st.hour) \o ":"
    ELSE IF p = "HourPrinter"
    THEN Year4(st.year) \o "-" \o Decimal02(st.month) \o "-" \o Decimal02(st.day)
    ELSE IF p = "DayPrinter" THEN Year4(st.year) \o "-" \o MonthAbbr(st.month)
    ELSE Year4(st.year)

\* _isBlockHeaderNeeded with HourPrinter and MinutePrinter comparing the day
\* of the month only
isBlockHeaderNeededDayOnly(p, last, st) ==
    IF p = "MinutePrinter" THEN last.day # st.day \/ last.hour # st.hour
    ELSE IF p = "HourPrinter" THEN last.day # st.day
    ELSE IF p = "DayPrinter"
    THEN last.year # st.year \/ last.month # st.month
    ELSE last.year # st.year

\* _isBlockHeaderNeeded
isBlockHeaderNeeded(p, last, st) ==
    IF p = "MinutePrinter"
    THEN last.year # st.year \/ last.month # st.month \/ last.day # st.day
         \/ last.hour # st.hour
    ELSE IF p = "HourPrinter"
    THEN last.year # st.year \/ last.month # st.month \/ last.day # st.day
    ELSE IF p = "DayPrinter"
    THEN last.year # st.year \/ last.month # st.month
    ELSE last.year # st.year

\* the tick counts each printer passes to makeScale
TryTickCount(p) ==
    IF p = "DayPrinter" THEN <<24, 12, 8, 4, 2, 1>> ELSE <<60, 12, 6, 4, 2, 1>>

\* makeScale, lines 341-347: s, the first tick count nt with l//nt >= 4,
\* 0 when there is none
RECURSIVE ScaleTicks(_, _)
ScaleTicks(l, tryTickCount) ==
    IF tryTickCount = <<>> THEN 0
    ELSE IF l \div Head(tryTickCount) >= 4 THEN Head(tryTickCount)
    ELSE ScaleTicks(l, Tail(tryTickCount))

\* the constructor raises: step=maxticks/s with s = 0 (line 349) is
\* ZeroDivisionError; makeMonthScale divides by the row duration only
constructorRaises(p, l) ==
    p # "MonthPrinter" /\ ScaleTicks(l, TryTickCount(p)) = 0

\* SCALEFILLER; U+00B7 (middle dot) of IntervalPrinter is written here as .
SCALEFILLER(p) ==
    IF p = "MinutePrinter" THEN "\""
    ELSE IF p = "HourPrinter" THEN "'"
    ELSE "."

\* filler * n; the empty string when n is not positive
RECURSIVE Times(_, _)
Times(filler, n) == IF n <= 0 THEN "" ELSE filler \o Times(filler, n - 1)

\* hdr + filler*(pos-len(hdr)) + label.  A scale is its text and, as
\* history, its marks: for every label the offset pos computed for it and
\* the offset it was written at
Mark(filler, sc, pos, label) ==
    CHOOSE t \in
      { [text |-> padded \o label,
         marks |-> Append(sc.marks,
                          [pos |-> pos, at |-> Len(padded), label |-> label])] :
          padded \in {sc.text \o Times(filler, pos - Len(sc.text))} } : TRUE

\* makeScale, lines 350-352: the turns i..s-1 of the loop.  For the lengths
\* of the model the floating-point int(l*(i*step/float(maxticks))) is
\* l*i \div s, and step is a whole number
RECURSIVE ScaleLoop(_, _, _, _, _, _)
ScaleLoop(filler, l, s, step, i, sc) ==
    IF i >= s THEN sc
    ELSE ScaleLoop(filler, l, s, step, i + 1,
                   Mark(filler, sc, (l * i) \div s, Decimal(i * step)))

\* hdr + filler*(l-len(hdr))
PadTo(filler, l, sc) ==
    [sc EXCEPT !.text = sc.text \o Times(filler, l - Len(sc.text))]

\* makeScale(tryTickCount) with s > 0
makeScale(p, l) ==
    LET s == ScaleTicks(l, TryTickCount(p))
    IN PadTo(SCALEFILLER(p), l,
             ScaleLoop(SCALEFILLER(p), l, s, TryTickCount(p)[1] \div s, 0,
                       [text |-> "", marks |-> <<>>]))

\* makeMonthScale, lines 478-486: the while loop from day pd with step s,
\* stp[-1] after the first label; <<>> when the loop is left by break
RECURSIVE MonthWalk(_, _, _, _, _)
MonthWalk(l, pd, s, last, sc) ==
    IF pd + s > 31 THEN <<PadTo(SCALEFILLER("MonthPrinter"), l, sc)>>
    ELSE IF (l * (pd + s - 1)) \div 31 - Len(sc.text) < 1 THEN <<>>
    ELSE MonthWalk(l, pd + s, last, last,
                   Mark(SCALEFILLER("MonthPrinter"), sc,
                        (l * (pd + s - 1)) \div 31, Decimal(pd + s)))

\* makeMonthScale: the loop over trySteps; <<>> when scale stays None
RECURSIVE MonthSteps(_, _)
MonthSteps(l, trySteps) ==
    IF trySteps = <<>> THEN <<>>
    ELSE CHOOSE t \in
           { IF w # <<>> THEN w ELSE MonthSteps(l, Tail(trySteps)) :
               w \in {MonthWalk(l, 1, Head(trySteps)[1], Head(trySteps)[2],
                                [text |-> "1",
                                 marks |-> <<[pos |-> 0, at |-> 0,
                                              label |-> "1"]>>])} } : TRUE

makeMonthScale(l) == MonthSteps(l, <<<<1, 1>>, <<2, 2>>, <<4, 5>>, <<9, 10>>>>)

\* IntervalPrinter.scale after the constructor: <<>> for None
ScaleOf(p, l) ==
    IF p = "MonthPrinter" THEN makeMonthScale(l)
    ELSE IF constructorRaises(p, l) THEN <<>>
    ELSE <<makeScale(p, l)>>

\* A printed line.  start and row are history: the start and the number of
\* the row the line belongs to.  The axis (scale) printed along with a block
\* header is left out.
Line(kind, text, body, legend, st, row) ==
    [kind |-> kind, text |-> text, body |-> body, legend |-> legend,
     start |-> st, row |-> row]

\* _printBlockHeader: o holds lastStart, lastBlockHeader and stdout
printBlockHeader(p, st, row, o) ==
    [lastStart |-> st,
     lastBlockHeader |-> IF p = "MinutePrinter" THEN st ELSE o.lastBlockHeader,
     stdout |-> Append(o.stdout,
                       Line("block", FormatBlockHeader(p, o.lastBlockHeader, st),
                            "", "", st, row))]

\* ''.join([bucket.format() for bucket in buckets])
RECURSIVE Body(_, _)
Body(type, bs) ==
    IF bs = <<>> THEN "" ELSE Format(type, Head(bs)) \o Body(type, Tail(bs))

\* IntervalPrinter.printRow
printRow(p, type, st, bs, ctx, row, o) ==
    LET h == IF isBlockHeaderNeeded(p, o.lastStart, st)
             THEN printBlockHeader(p, st, row, o) ELSE o
    IN [h EXCEPT !.stdout =
            Append(h.stdout,
                   Line("row", FormatRowHeader(p, st), Body(type, bs),
                        ContextFormat(ctx), st, row))]

----------------------------------------------------------------------------
(* DataRow *)

\* DataRow.context before the first reset
NoContext == [kind |-> "None", bucket_duration_s |-> <<>>]

\* DataRow.reset dividing the length of the window, finish-start, instead
\* of duration_s
resetToWindow(type, len, r) ==
    [start |-> r.start, finish |-> r.finish, duration_s |-> r.duration_s,
     context |-> [NewContext(type) EXCEPT
                     !.bucket_duration_s = <<TotalSeconds(r.finish, r.start), len>>],
     buckets |-> [i \in 1..len |-> NewAccum(type)]]

\* DataRow.reset, lines 243-248, on the range r that setRangeFor has set:
\* bucket_duration_s = duration_s/length is kept as the pair
\* <<duration_s, length>>
resetTo(type, len, r) ==
    [start |-> r.start, finish |-> r.finish, duration_s |-> r.duration_s,
     context |-> [NewContext(type) EXCEPT
                     !.bucket_duration_s = <<r.duration_s, len>>],
     buckets |-> [i \in 1..len |-> NewAccum(type)]]

\* DataRow.reset
reset(p, type, len, ts) ==
    CHOOSE row \in { resetTo(type, len, r) : r \in {setRangeFor(p, ts)} } : TRUE

\* DataRow._getAccumFor truncating the quotient before it is scaled:
\* int(elapsed/duration_s)*length
getAccumForTruncFirst(ts, st, fin, len, dur) ==
    IF Before(ts, st) \/ ~Before(ts, fin) THEN -1
    ELSE (TotalSeconds(ts, st) \div dur) * len

\* DataRow._getAccumFor without the test timestamp<self.start: an earlier
\* timestamp falls into the first bucket
getAccumForNoLowerTest(ts, st, fin, len, dur) ==
    IF ~Before(ts, fin) THEN -1
    ELSE IF Before(ts, st) THEN 0
    ELSE (TotalSeconds(ts, st) * len) \div dur

\* DataRow._getAccumFor: the index d of the bucket, -1 for None
getAccumFor(ts, st, fin, len, dur) ==
    IF Before(ts, st) \/ ~Before(ts, fin) THEN -1
    ELSE (TotalSeconds(ts, st) * len) \div dur

----------------------------------------------------------------------------
(* Bounds and inputs *)

MaxLines == 3      \* lines of the log file
MaxUpdates == 3    \* direct update calls

Lengths == {4, 7}
LocalZones == {-300}
\* <<ITZ, OTZ>>: the default, and the output zone set to UTC (option -ou)
DefaultZones == {<<<<>>, <<>>>>}
Zones == DefaultZones \cup {<<<<>>, <<0>>>>}

\* timestamps as the parsers produce them (naive unless the line has an offset)
AllTs ==
    { DateTime(2024, 2, 29, 23, 59, 59, <<>>),
      DateTime(2024, 12, 31, 23, 59, 10, <<>>),
      DateTime(2024, 12, 31, 23, 59, 50, <<>>),
      DateTime(2024, 12, 31, 23, 20, 5, <<>>),
      DateTime(2025, 1, 1, 0, 0, 0, <<>>),
      DateTime(2025, 1, 15, 10, 0, 0, <<>>),
      DateTime(2025, 1, 15, 23, 59, 0, <<>>),
      DateTime(2025, 1, 16, 0, 1, 0, <<>>),
      DateTime(2025, 1, 15, 23, 30, 0, <<60>>) }

FewTs ==
    { DateTime(2025, 1, 15, 10, 0, 0, <<>>),
      DateTime(2025, 1, 15, 23, 59, 0, <<>>),
      DateTime(2025, 1, 16, 0, 1, 0, <<>>) }

InputTs(type) == IF type = "Accumulator" THEN AllTs ELSE FewTs

\* the entries a parser hands over, by the class that accumulates them
Entries(type) ==
    IF type = "BitmaskAccum"
    THEN {<<"GET">>, <<"POST", "GET">>, <<"", "PUT">>, <<"a", "b">>}
    ELSE IF type = "StatsAccum" THEN {10, 25, 7}
    ELSE IF type = "WebAccum"
    THEN {<<"127.0.0.1", "\"GET / HTTP/1.1\" 200 -">>,
          <<"10.0.0.1", "\"GET / HTTP/1.1\" 200 -">>,
          <<"10.0.0.1", "\"GET /x HTTP/1.1\" 404 -">>,
          <<"10.0.0.1", "garbage">>}
    ELSE IF type = "PriorityEventsAccum"
    THEN {<<1, "a">>, <<3, "b">>, <<2, "c">>, <<3, "d">>}
    ELSE {"line"}

\* the entries of the direct update calls
CellEntries(type) ==
    IF type = "BitmaskAccum"
    THEN Entries(type) \cup {<<"GET", "POST", "GET", "PUT">>, <<"HEAD", "a", "b">>}
    ELSE IF type = "PriorityEventsAccum"
    THEN Entries(type) \cup {<<-999999, "y">>, <<-1000000, "z">>}
    ELSE IF type = "StatsAccum" THEN Entries(type) \cup {3, -5, 100}
    ELSE Entries(type)

Cells == {1, 2}

ProbeYears == {1900, 2000, 2023, 2024, 2025, 2100}

ProbeTs ==
    { DateTime(y, m, dd, t[1], t[2], t[3], <<0>>) :
        y \in ProbeYears, m \in 1..12, dd \in {1, 15, 28},
        t \in {<<0, 0, 0>>, <<23, 59, 59>>} }
    \cup { DateTime(y, m, DaysInMonth(y, m), 23, 59, 59, <<0>>) :
             y \in ProbeYears, m \in 1..12 }

----------------------------------------------------------------------------
(* SummarizeLogFile over a renderer: the engine *)

NoMatch == [match |-> FALSE, ts |-> None, entry |-> <<>>]

EngineInit(printers, lengths, types, zones) ==
    /\ printer \in printers
    /\ length \in lengths
    /\ accumType \in types
    /\ \E z \in zones : ITZ = z[1] /\ OTZ = z[2]
    /\ localtz \in LocalZones
    /\ scale = ScaleOf(printer, length)
    /\ start = None
    /\ finish = None
    /\ duration_s = RowDuration(printer)
    /\ context = NoContext
    /\ buckets = <<>>
    /\ lastStart = None
    /\ lastBlockHeader = None
    /\ stdout = <<>>
    /\ pc = "reading"
    /\ nread = 0
    /\ line = NoMatch
    /\ d = -1
    /\ rowEntries = <<>>
    /\ nrows = 0

CellsIdle == cells = <<>> /\ cellCtx = NoContext /\ cellLog = <<>>

ProbeIdle == probe = [ts |-> None, called |-> FALSE, range |-> <<>>]

Init ==
    EngineInit(Printers, Lengths, {"Accumulator"}, Zones)
    /\ CellsIdle /\ ProbeIdle

\* DataRow.reset raises: the assert of MonthPrinter.setRangeFor (line 500),
\* or ZeroDivisionError in duration_s/length (line 246)
resetRaises(len, r) == r.finish = None \/ len = 0

\* DataRow.process, lines 258-261: the first call opens the first row and
\* has the block header printed.  s holds the row, the printer's state
\* (out), the number of rows opened and whether an exception was raised.
processFirst(p, type, len, nts, s) ==
    IF s.row.start # None THEN s
    ELSE CHOOSE t \in
           { [row |-> r,
              out |-> IF resetRaises(len, r) THEN s.out
                      ELSE printBlockHeader(p, r.start, s.nrows + 1, s.out),
              nrows |-> s.nrows + 1, fresh |-> TRUE,
              raised |-> resetRaises(len, r)] :
               r \in {reset(p, type, len, nts)} } : TRUE

\* DataRow.process, lines 266-268, with a reset that keeps the context of
\* the row before
newRowKeepContext(p, type, len, nts, s) ==
    CHOOSE t \in
      { [row |-> [r EXCEPT !.context = s.row.context],
         out |-> printRow(p, type, s.row.start, s.row.buckets, s.row.context,
                          s.nrows, s.out),
         nrows |-> s.nrows + 1, fresh |-> TRUE,
         raised |-> resetRaises(len, r)] :
          r \in {reset(p, type, len, nts)} } : TRUE

\* DataRow.process, lines 266-268: the row is printed and a new one started
newRow(p, type, len, nts, s) ==
    CHOOSE t \in
      { [row |-> r,
         out |-> printRow(p, type, s.row.start, s.row.buckets, s.row.context,
                          s.nrows, s.out),
         nrows |-> s.nrows + 1, fresh |-> TRUE,
         raised |-> resetRaises(len, r)] :
          r \in {reset(p, type, len, nts)} } : TRUE

\* DataRow.process, lines 262-269: a timestamp outside the row has the row
\* printed and a new one started
processRoll(p, type, len, nts, s) ==
    IF s.raised THEN s
    ELSE IF getAccumFor(nts, s.row.start, s.row.finish, len, s.row.duration_s)
            # -1
    THEN s
    ELSE newRow(p, type, len, nts, s)

\* a.update(entry) on the bucket _getAccumFor returns, without line 254
updatedNoMark(type, bs, ctx, k, entry) == Update(type, bs[k + 1], ctx, entry)

\* the bucket _getAccumFor returns, marked initialized (line 254), and the
\* context after a.update(entry) (line 270); k is the bucket's index
updated(type, bs, ctx, k, entry) ==
    Update(type, [bs[k + 1] EXCEPT !.initialized = TRUE], ctx, entry)

\* DataRow.process, line 270, on the bucket of index k; update on None (k is
\* -1) raises
updateAt(type, s, k, entry) ==
    IF k = -1 THEN [s EXCEPT !.raised = TRUE] @@ [d |-> k]
    ELSE CHOOSE t \in
           { [s EXCEPT !.row.buckets[k + 1] = u.acc, !.row.context = u.ctx]
             @@ [d |-> k] :
               u \in {updated(type, s.row.buckets, s.row.context, k, entry)} }
           : TRUE

\* DataRow.process: the lookup that returns the bucket, and line 270
processUpdate(type, len, nts, entry, s) ==
    CHOOSE t \in
      { updateAt(type, s, k, entry) :
          k \in { IF s.raised THEN -1
                  ELSE getAccumFor(nts, s.row.start, s.row.finish, len,
                                   s.row.duration_s) } } : TRUE

\* DataRow.process(ts, entry) with ts already normalized: the three parts
\* one after the other, each on the value the one before it left
process(p, type, len, nts, entry, row, o, n) ==
    CHOOSE r \in
        { processUpdate(type, len, nts, entry, s2) :
            s2 \in { processRoll(p, type, len, nts, s1) :
                       s1 \in { processFirst(p, type, len, nts,
                                             [row |-> row, out |-> o,
                                              nrows |-> n, fresh |-> FALSE,
                                              raised |-> FALSE]) } } } : TRUE

\* Renderer.end without the flush of the open row
endNoFlush(p, type, st, bs, ctx, row, o) == o

\* Renderer.end printing a line although no row was opened
endAlways(p, type, st, bs, ctx, row, o) ==
    IF st # None THEN printRow(p, type, st, bs, ctx, row, o)
    ELSE [o EXCEPT !.stdout = Append(o.stdout, Line("row", "", "", "", st, row))]

\* Renderer.end
end(p, type, st, bs, ctx, row, o) ==
    IF st # None THEN printRow(p, type, st, bs, ctx, row, o) ELSE o

\* Renderer.process(ts, entry), as the parser calls it
RendererProcess(ts, entry) ==
         \E nts \in {Normalize(ts, ITZ, OTZ, localtz)} :
         \E r \in {process(printer, accumType, length, nts, entry,
                           [start |-> start, finish |-> finish,
                            duration_s |-> duration_s, context |-> context,
                            buckets |-> buckets],
                           [lastStart |-> lastStart,
                            lastBlockHeader |-> lastBlockHeader,
                            stdout |-> stdout],
                           nrows)} :
            /\ start' = r.row.start
            /\ finish' = r.row.finish
            /\ duration_s' = r.row.duration_s
            /\ context' = r.row.context
            /\ buckets' = r.row.buckets
            /\ lastStart' = r.out.lastStart
            /\ lastBlockHeader' = r.out.lastBlockHeader
            /\ stdout' = r.out.stdout
            /\ nrows' = r.nrows
            /\ d' = r.d
            /\ rowEntries' =
                 IF r.fresh
                 THEN <<[d |-> r.d, ts |-> nts, entry |-> entry, raw |-> ts]>>
                 ELSE Append(rowEntries,
                             [d |-> r.d, ts |-> nts, entry |-> entry, raw |-> ts])
            /\ pc' = IF r.raised THEN "crashed" ELSE "reading"
            /\ line' = [match |-> TRUE, ts |-> ts, entry |-> entry]

\* a line the parser matches: r.process(ts, entry)
Submit ==
    /\ pc = "reading"
    /\ nread < MaxLines
    /\ \E ts \in InputTs(accumType), entry \in Entries(accumType) :
          RendererProcess(ts, entry)
    /\ nread' = nread + 1
    /\ UNCHANGED <<cfgVars, cellVars, probe>>

\* a line the parser does not match
Skip ==
    /\ pc = "reading"
    /\ nread < MaxLines
    /\ nread' = nread + 1
    /\ line' = NoMatch
    /\ UNCHANGED <<cfgVars, rowVars, outVars, pc, cellVars, probe>>

\* end of file: r.end()
Finalize ==
    /\ pc = "reading"
    /\ \E o \in {end(printer, accumType, start, buckets, context, nrows,
                      [lastStart |-> lastStart,
                       lastBlockHeader |-> lastBlockHeader,
                       stdout |-> stdout])} :
          /\ lastStart' = o.lastStart
          /\ lastBlockHeader' = o.lastBlockHeader
          /\ stdout' = o.stdout
    /\ pc' = "done"
    /\ UNCHANGED <<cfgVars, rowVars, nread, line, cellVars, probe>>

Next == Submit \/ Skip \/ Finalize

Spec == Init /\ [][Next]_vars

\* the engine over token-bitmask rows
InitBitmask ==
    EngineInit({"HourPrinter", "DayPrinter"}, Lengths, {"BitmaskAccum"},
               DefaultZones)
    /\ CellsIdle /\ ProbeIdle

SpecBitmask == InitBitmask /\ [][Next]_vars

----------------------------------------------------------------------------
(* SummarizeLogFile with parseIso over the lines of a file.  A line is the  *)
(* outcome of re.search(RE_ISOTS, s) on it: found is FALSE when the pattern *)
(* is not in the line; otherwise date holds the three numbers of the date   *)
(* group, hours, minutes and seconds are <<>> for a group that did not      *)
(* take part and <<n>> otherwise, tz is <<>> or <<sign, hours, minutes>>.   *)

RawLine(text, found, date, hours, minutes, seconds, tz) ==
    [text |-> text, found |-> found, date |-> date, hours |-> hours,
     minutes |-> minutes, seconds |-> seconds, tz |-> tz]

LogLines ==
    { RawLine("hello", FALSE, <<>>, <<>>, <<>>, <<>>, <<>>),
      RawLine("2025-01-15", FALSE, <<>>, <<>>, <<>>, <<>>, <<>>),
      RawLine("2025-01-15 10:00:00 up", TRUE, <<2025, 1, 15>>,
              <<10>>, <<0>>, <<0>>, <<>>),
      RawLine("2025/01/16 0:01 up", TRUE, <<2025, 1, 16>>,
              <<0>>, <<1>>, <<>>, <<>>),
      RawLine("2025-01-15T23:30:00+01:00", TRUE, <<2025, 1, 15>>,
              <<23>>, <<30>>, <<0>>, <<1, 1, 0>>),
      RawLine("2025-13-01 00:00:00 up", TRUE, <<2025, 13, 1>>,
              <<0>>, <<0>>, <<0>>, <<>>),
      RawLine("2025-01-15 99:00:00 up", TRUE, <<2025, 1, 15>>,
              <<99>>, <<0>>, <<0>>, <<>>),
      RawLine("2025-02-30 10:00:00 up", TRUE, <<2025, 2, 30>>,
              <<10>>, <<0>>, <<0>>, <<>>) }

\* a group that did not take part is '' and is padded to '00'
GroupOr0(g) == IF g = <<>> THEN 0 ELSE g[1]

\* datetime.fromisoformat on the normalized text: <<>> for ValueError,
\* <<datetime>> otherwise
FromIsoFormat(date, h, mi, s, tz) ==
    IF /\ date[1] \in 1..9999
       /\ date[2] \in 1..12
       /\ date[3] \in 1..DaysInMonth(date[1], date[2])
       /\ h \in 0..23 /\ mi \in 0..59 /\ s \in 0..59
       /\ tz # <<>> => (tz[2] \in 0..23 /\ tz[3] \in 0..59)
    THEN <<DateTime(date[1], date[2], date[3], h, mi, s,
                    IF tz = <<>> THEN <<>>
                    ELSE <<tz[1] * (tz[2] * 60 + tz[3])>>)>>
    ELSE <<>>

\* matchIso(s): ts is None when the pattern is not found; raised when
\* fromisoformat raises ValueError
matchIso(s) ==
    IF ~s.found THEN [raised |-> FALSE, ts |-> None]
    ELSE CHOOSE t \in
           { IF iso = <<>> THEN [raised |-> TRUE, ts |-> None]
             ELSE [raised |-> FALSE, ts |-> iso[1]] :
               iso \in {FromIsoFormat(s.date, GroupOr0(s.hours),
                                      GroupOr0(s.minutes),
                                      GroupOr0(s.seconds), s.tz)} } : TRUE

\* one turn of the loop of SummarizeLogFile: parseIso(l, r) on the line
\* read; an exception of matchIso leaves the loop and the function
ReadLine ==
    /\ pc = "reading"
    /\ nread < MaxLines
    /\ \E s \in LogLines :
         \E mt \in {matchIso(s)} :
            IF mt.raised
            THEN /\ pc' = "crashed"
                 /\ line' = [match |-> FALSE, ts |-> None, entry |-> s]
                 /\ UNCHANGED <<rowVars, outVars>>
            ELSE IF mt.ts = None
            THEN /\ line' = [match |-> FALSE, ts |-> None, entry |-> s]
                 /\ UNCHANGED <<rowVars, outVars, pc>>
            ELSE RendererProcess(mt.ts, s)
    /\ nread' = nread + 1
    /\ UNCHANGED <<cfgVars, cellVars, probe>>

\* the engine under every combination of the options -u and -ou, fed
\* timestamps of which several denote the same instant
ZoneTs ==
    { DateTime(2025, 1, 15, 23, 30, 0, <<60>>),
      DateTime(2025, 1, 15, 22, 30, 0, <<0>>),
      DateTime(2025, 1, 15, 17, 30, 0, <<-300>>),
      DateTime(2025, 1, 15, 17, 30, 0, <<>>),
      DateTime(2025, 1, 15, 22, 30, 0, <<>>),
      DateTime(2025, 1, 16, 1, 10, 0, <<120>>),
      DateTime(2025, 1, 1, 0, 30, 0, <<60>>) }

AllZones == {<<i, o>> : i \in {<<>>, <<0>>}, o \in {<<>>, <<0>>}}

InitZones ==
    EngineInit(Printers, Lengths, {"Accumulator"}, AllZones)
    /\ CellsIdle /\ ProbeIdle

SubmitZoned ==
    /\ pc = "reading"
    /\ nread < MaxLines
    /\ \E ts \in ZoneTs : RendererProcess(ts, "line")
    /\ nread' = nread + 1
    /\ UNCHANGED <<cfgVars, cellVars, probe>>

NextZones == SubmitZoned \/ Finalize

SpecZones == InitZones /\ [][NextZones]_vars

\* the engine over rows of web-log aggregates
InitWeb ==
    EngineInit({"HourPrinter", "DayPrinter"}, Lengths, {"WebAccum"},
               DefaultZones)
    /\ CellsIdle /\ ProbeIdle

SpecWeb == InitWeb /\ [][Next]_vars

NextParse == ReadLine \/ Finalize

InitParse ==
    EngineInit(Printers, Lengths, {"Accumulator"}, DefaultZones)
    /\ CellsIdle /\ ProbeIdle

SpecParse == InitParse /\ [][NextParse]_vars

----------------------------------------------------------------------------
(* Construction of a printer: IntervalPrinter.__init__ followed by        *)
(* makeScale or makeMonthScale, then the summary of a file                 *)

ConfigLengths == {0, 1, 3, 4, 7}

InitConfig ==
    /\ printer \in Printers
    /\ length \in ConfigLengths
    /\ accumType = "Accumulator"
    /\ ITZ = <<>> /\ OTZ = <<>>
    /\ localtz \in LocalZones
    /\ scale = <<>>
    /\ start = None
    /\ finish = None
    /\ duration_s = RowDuration(printer)
    /\ context = NoContext
    /\ buckets = <<>>
    /\ lastStart = None
    /\ lastBlockHeader = None
    /\ stdout = <<>>
    /\ pc = "constructing"
    /\ nread = 0
    /\ line = NoMatch
    /\ d = -1
    /\ rowEntries = <<>>
    /\ nrows = 0
    /\ CellsIdle /\ ProbeIdle

\* renderer(NBUCKETS, Accumulator): the constructor of the printer
Construct ==
    /\ pc = "constructing"
    /\ pc' = IF constructorRaises(printer, length) THEN "failed" ELSE "reading"
    /\ scale' = ScaleOf(printer, length)
    /\ UNCHANGED <<printer, length, accumType, ITZ, OTZ, localtz, rowVars,
                   outVars, nread, line, cellVars, probe>>

NextConfig == Construct \/ Submit \/ Skip \/ Finalize

SpecConfig == InitConfig /\ [][NextConfig]_vars

\* the constructor alone, for every bucket count up to MaxScaleLength
MaxScaleLength == 100

InitScale ==
    /\ printer \in Printers
    /\ length \in 0..MaxScaleLength
    /\ accumType = "Accumulator"
    /\ ITZ = <<>> /\ OTZ = <<>>
    /\ localtz \in LocalZones
    /\ scale = <<>>
    /\ start = None
    /\ finish = None
    /\ duration_s = RowDuration(printer)
    /\ context = NoContext
    /\ buckets = <<>>
    /\ lastStart = None
    /\ lastBlockHeader = None
    /\ stdout = <<>>
    /\ pc = "constructing"
    /\ nread = 0
    /\ line = NoMatch
    /\ d = -1
    /\ rowEntries = <<>>
    /\ nrows = 0
    /\ CellsIdle /\ ProbeIdle

NextScale == Construct

SpecScale == InitScale /\ [][NextScale]_vars

----------------------------------------------------------------------------
(* Aggregates used directly: accumType(context) objects sharing one        *)
(* context, as DataRow.reset builds them, and update called on them        *)

EngineIdle ==
    /\ printer = "DayPrinter"
    /\ length = 0
    /\ ITZ = <<>>
    /\ OTZ = <<>>
    /\ localtz = 0
    /\ scale = <<>>
    /\ start = None
    /\ finish = None
    /\ duration_s = RowDuration(printer)
    /\ context = NoContext
    /\ buckets = <<>>
    /\ lastStart = None
    /\ lastBlockHeader = None
    /\ stdout = <<>>
    /\ pc = "idle"
    /\ nread = 0
    /\ line = NoMatch
    /\ d = -1
    /\ rowEntries = <<>>
    /\ nrows = 0

InitCells ==
    /\ EngineIdle
    /\ ProbeIdle
    /\ accumType \in AccumTypes
    /\ cells = [i \in Cells |-> NewAccum(accumType)]
    /\ cellCtx = NewContext(accumType)
    /\ cellLog = <<>>

UpdateCell ==
    /\ Len(cellLog) < MaxUpdates
    /\ \E i \in Cells, entry \in CellEntries(accumType) :
         \E u \in {Update(accumType, cells[i], cellCtx, entry)} :
            /\ cells' = [cells EXCEPT ![i] = u.acc]
            /\ cellCtx' = u.ctx
            /\ cellLog' = Append(cellLog, <<i, entry>>)
    /\ UNCHANGED <<cfgVars, rowVars, outVars, runVars, probe>>

NextCells == UpdateCell

SpecCells == InitCells /\ [][NextCells]_vars

----------------------------------------------------------------------------
(* Two running aggregates of one class, each fed some values, merged by    *)
(* update both ways                                                        *)

MergeValues == {3, 7, 10}
MaxFolded == 2
ValueSeqs == UNION {[1..n -> MergeValues] : n \in 0..MaxFolded}

InitMerge ==
    /\ EngineIdle
    /\ accumType = "Accumulator"
    /\ CellsIdle
    /\ \E lv \in 1..Len(Levels), va \in ValueSeqs, vb \in ValueSeqs :
          probe = [level |-> Levels[lv], va |-> va, vb |-> vb,
                   called |-> FALSE, ab |-> <<>>, ba |-> <<>>]

\* A.update(B) on one pair of aggregates and B.update(A) on another pair
\* fed the same values
CallMerge ==
    /\ ~probe.called
    /\ probe' = [probe EXCEPT
                   !.called = TRUE,
                   !.ab = MergeAt(probe.level, Fold(probe.level, probe.va),
                                  Fold(probe.level, probe.vb)),
                   !.ba = MergeAt(probe.level, Fold(probe.level, probe.vb),
                                  Fold(probe.level, probe.va))]
    /\ UNCHANGED <<cfgVars, rowVars, outVars, runVars, cellVars>>

NextMerge == CallMerge

SpecMerge == InitMerge /\ [][NextMerge]_vars

----------------------------------------------------------------------------
(* __main__: the loop over sys.argv[1:].  probe holds the locals: argv, the *)
(* number i of arguments consumed, renderer, render (<<>> while unbound),   *)
(* option (<<>> for None), NBUCKETS, and as history the calls of            *)
(* SummarizeLogFile: the position of the file name in argv, the class and   *)
(* the bucket count of the renderer constructed for it.                     *)

MaxArgs == 3
Args == {"-m", "-d", "-H", "-M", "-u", "-ou", "-b", "-x", "40", "log"}
ArgLists == UNION {[1..n -> Args] : n \in 0..MaxArgs}

\* shutil.get_terminal_size((80,24)).columns - 10, for 80 columns
DefaultBuckets == 70

\* the assignments of the branches o=='m', 'd', 'H', 'M'
SelectorClass(arg) ==
    IF arg = "-m" THEN "MonthPrinter"
    ELSE IF arg = "-d" THEN "DayPrinter"
    ELSE IF arg = "-H" THEN "HourPrinter"
    ELSE "MinutePrinter"

Selectors == {"-m", "-d", "-H", "-M"}

\* int(arg): <<>> for ValueError
IntOf(arg) == IF arg = "40" THEN <<40>> ELSE <<>>

InitMain ==
    /\ EngineIdle
    /\ accumType = "Accumulator"
    /\ CellsIdle
    /\ \E argv \in ArgLists :
          probe = [argv |-> argv, i |-> 0, renderer |-> "DayPrinter",
                   render |-> <<>>, option |-> <<>>,
                   NBUCKETS |-> DefaultBuckets, summarized |-> <<>>,
                   raised |-> FALSE]

\* one turn of the loop "for arg in sys.argv[1:]"
MainArg ==
    /\ ~probe.raised
    /\ probe.i < Len(probe.argv)
    /\ LET arg == probe.argv[probe.i + 1]
           next == [probe EXCEPT !.i = probe.i + 1]
       IN IF probe.option = <<>> /\ arg \in Args \ {"40", "log"}
          THEN \* an option: arg[0]=='-'
               /\ probe' =
                     IF arg = "-b" THEN [next EXCEPT !.option = <<"b">>]
                     ELSE IF arg \in Selectors
                     THEN [next EXCEPT !.render = <<SelectorClass(arg)>>]
                     ELSE next
               /\ ITZ' = IF arg = "-u" THEN <<0>> ELSE ITZ
               /\ OTZ' = IF arg = "-ou" THEN <<0>> ELSE OTZ
          ELSE IF probe.option # <<>>
          THEN \* the value of -b
               /\ probe' =
                     IF IntOf(arg) = <<>> THEN [next EXCEPT !.raised = TRUE]
                     ELSE [next EXCEPT !.NBUCKETS = IntOf(arg)[1],
                                       !.option = <<>>]
               /\ UNCHANGED <<ITZ, OTZ>>
          ELSE \* a file name: SummarizeLogFile(arg, parseIso,
               \* renderer(NBUCKETS, Accumulator))
               /\ probe' =
                     [next EXCEPT !.summarized =
                         Append(probe.summarized,
                                [at |-> probe.i + 1, file |-> arg,
                                 printer |-> probe.renderer,
                                 length |-> probe.NBUCKETS])]
               /\ UNCHANGED <<ITZ, OTZ>>
    /\ UNCHANGED <<printer, length, accumType, localtz, scale, rowVars,
                   outVars, runVars, cellVars>>

NextMain == MainArg

SpecMain == InitMain /\ [][NextMain]_vars

----------------------------------------------------------------------------
(* setRangeFor called directly on a timestamp *)

InitRange ==
    /\ EngineInit(Printers, {31}, {"Accumulator"}, DefaultZones)
    /\ CellsIdle
    /\ probe \in [ts : ProbeTs, called : {FALSE}, range : {<<>>}]

CallSetRangeFor ==
    /\ ~probe.called
    /\ probe' = [probe EXCEPT !.called = TRUE,
                              !.range = setRangeFor(printer, probe.ts)]
    /\ UNCHANGED <<cfgVars, rowVars, outVars, runVars, cellVars>>

NextRange == CallSetRangeFor

SpecRange == InitRange /\ [][NextRange]_vars

----------------------------------------------------------------------------
(* Properties *)

\* the lines of stdout that render a row
RowLines == SelectSeq(stdout, LAMBDA l : l.kind = "row")

\* ts lies in the window [st, fin)
InWindow(ts, st, fin) == ~Before(ts, st) /\ Before(ts, fin)

\* C1: every row that was opened is rendered exactly once.  While lines are
\* read the rows rendered are the rows 1..nrows-1, each once and in order,
\* and row nrows is open; after finalize they are the rows 1..nrows.  The
\* open row has only seen timestamps inside its window, and it was opened
\* by a timestamp outside the window of the row rendered last; no call
\* raises.
C1_RenderedExactlyOnce ==
    /\ pc \in {"reading", "done"}
    /\ Len(RowLines) = IF pc = "done" \/ nrows = 0 THEN nrows ELSE nrows - 1
    /\ \A i \in 1..Len(RowLines) : RowLines[i].row = i
    /\ \A i \in 1..Len(rowEntries) : InWindow(rowEntries[i].ts, start, finish)
    /\ (nrows >= 2 /\ Len(RowLines) >= nrows - 1) =>
          ~InWindow(rowEntries[1].ts, RowLines[nrows - 1].start,
                    setRangeFor(printer, RowLines[nrows - 1].start).finish)

\* C1 witness: a stream of three rows has ended; two rows were rendered by
\* a timestamp outside their window, the last one by finalize
C1_Witness ==
    pc = "done" /\ nrows = 3 /\ Len(RowLines) = 3 /\ stdout[Len(stdout)].row = 3

\* C2: when no entry was ever submitted, finalize prints nothing (no row, no
\* block header) and the pass ends without an error
C2_EmptyRendersNothing ==
    nrows = 0 => (stdout = <<>> /\ pc \in {"reading", "done"})

\* C2 witness: a pass over non-matching lines only has ended
C2_Witness == pc = "done" /\ nrows = 0 /\ nread > 0 /\ ~line.match

\* the seconds from the start of the open row to the entry e of that row
Elapsed(e) == TotalSeconds(e.ts, start)

\* the k with start + k*D <= ts < start + (k+1)*D for the entry e, D being
\* the bucket duration num/den the row's context holds; -1 when there is none
SubInterval(e, num, den) ==
    IF \E k \in 0..(length - 1) :
          k * num <= Elapsed(e) * den /\ Elapsed(e) * den < (k + 1) * num
    THEN CHOOSE k \in 0..(length - 1) :
          k * num <= Elapsed(e) * den /\ Elapsed(e) * den < (k + 1) * num
    ELSE -1

\* C3: every entry accepted into the open row resolved to the bucket of
\* index floor((ts - start) / D), 0 <= index < length, D the row's bucket
\* duration; entries of one sub-interval [start + k*D, start + (k+1)*D)
\* share a bucket, entries of different sub-intervals do not
C3_BucketIndex ==
    \A i \in 1..Len(rowEntries) :
        LET e == rowEntries[i]
            D == context.bucket_duration_s
        IN /\ e.d >= 0 /\ e.d < length
           /\ e.d = SubInterval(e, D[1], D[2])
           /\ buckets[e.d + 1].initialized
           /\ \A j \in 1..Len(rowEntries) :
                (SubInterval(rowEntries[j], D[1], D[2]) = SubInterval(e, D[1], D[2]))
                <=> (rowEntries[j].d = e.d)

\* C3 witness: the open row holds two entries of one sub-interval and an
\* entry of the sub-interval next to it
C3_Witness ==
    /\ Len(rowEntries) = 3
    /\ \E i, j, k \in 1..3 :
          /\ i # j
          /\ rowEntries[i].ts # rowEntries[j].ts
          /\ rowEntries[i].d = rowEntries[j].d
          /\ rowEntries[k].d = rowEntries[i].d + 1

SameDay(a, b) == a.year = b.year /\ a.month = b.month /\ a.day = b.day

\* 00:00 of the calendar day of ts, in the zone of ts
Midnight(ts) == DateTime(ts.year, ts.month, ts.day, 0, 0, 0, ts.tz)

\* C4: with day granularity the open row's window is [00:00 of the day of
\* its entries (output zone), 00:00 of the next day); the entries received
\* since the last render are all of that day, and the row rendered before
\* it was rendered by the first entry of another day
C4_DayRows ==
    (printer = "DayPrinter" /\ start # None) =>
        /\ \A i \in 1..Len(rowEntries) :
              rowEntries[i].ts.tz = (IF OTZ = <<>> THEN <<localtz>> ELSE OTZ)
              /\ start = Midnight(rowEntries[i].ts)
        /\ finish.hour = 0 /\ finish.minute = 0 /\ finish.second = 0
        /\ ToOrdinal(finish) = ToOrdinal(start) + 1
        /\ finish.tz = start.tz
        /\ nrows >= 2 =>
              /\ Len(RowLines) >= nrows - 1
              /\ RowLines[nrows - 1].row = nrows - 1
              /\ ~SameDay(RowLines[nrows - 1].start, rowEntries[1].ts)

\* C4 witness: two entries of one day are in the open row, which was opened
\* after the row of another day was rendered
C4_Witness ==
    /\ printer = "DayPrinter" /\ pc = "reading"
    /\ nrows = 2 /\ Len(rowEntries) = 2 /\ Len(RowLines) = 1
    /\ rowEntries[1].ts # rowEntries[2].ts

\* C5: MonthPrinter.setRangeFor gives, for every timestamp, the window from
\* 00:00 on the first of the timestamp's month to 00:00 on the first of the
\* following month: 28 days for February 2025, 29 for February 2024, and
\* between 28 and 31 days for every month
C5_MonthWindow ==
    (probe.called /\ printer = "MonthPrinter") =>
        LET ts == probe.ts
            r == probe.range
            days == ToOrdinal(r.finish) - ToOrdinal(r.start)
        IN /\ r.start = DateTime(ts.year, ts.month, 1, 0, 0, 0, ts.tz)
           /\ r.finish = IF ts.month = 12
                         THEN DateTime(ts.year + 1, 1, 1, 0, 0, 0, ts.tz)
                         ELSE DateTime(ts.year, ts.month + 1, 1, 0, 0, 0, ts.tz)
           /\ days >= 28 /\ days <= 31
           /\ TotalSeconds(r.finish, r.start) = days * 86400
           /\ (ts.year = 2025 /\ ts.month = 2) => days = 28
           /\ (ts.year = 2024 /\ ts.month = 2) => days = 29
           /\ (ts.month \in {4, 6, 9, 11}) => days = 30
           /\ (ts.month \in {1, 3, 5, 7, 8, 10, 12}) => days = 31

\* C5 witness: setRangeFor was called for a timestamp of the last day of
\* February 2024
C5_Witness ==
    /\ probe.called /\ printer = "MonthPrinter"
    /\ probe.ts.year = 2024 /\ probe.ts.month = 2 /\ probe.ts.day = 29
    /\ probe.range.finish.month = 3

\* the block unit of a row start, by granularity
BlockUnit(p, st) ==
    IF p = "MinutePrinter" THEN <<st.year, st.month, st.day, st.hour>>
    ELSE IF p = "HourPrinter" THEN <<st.year, st.month, st.day>>
    ELSE IF p = "DayPrinter" THEN <<st.year, st.month>>
    ELSE <<st.year>>

\* the index in stdout of the row line before line i, 0 when there is none
PrevRow(i) ==
    IF \E j \in 1..(i - 1) : stdout[j].kind = "row"
    THEN CHOOSE j \in 1..(i - 1) :
            stdout[j].kind = "row"
            /\ \A k \in (j + 1)..(i - 1) : stdout[k].kind # "row"
    ELSE 0

\* C6: the first line printed is the block header of the first row; a later
\* row line is preceded by a block header (of that row's start) exactly
\* when the block unit of its start differs from that of the row rendered
\* before it; no other block header is printed
C6_BlockHeaders ==
    /\ stdout # <<>> =>
          stdout[1].kind = "block" /\ stdout[1].row = 1
    /\ \A i \in 1..Len(stdout) :
          /\ (stdout[i].kind = "block" /\ i > 1) =>
                (i < Len(stdout) /\ stdout[i - 1].kind = "row")
          /\ (stdout[i].kind = "block" /\ i < Len(stdout)) =>
                (stdout[i + 1].kind = "row"
                 /\ stdout[i + 1].start = stdout[i].start)
          /\ (stdout[i].kind = "row" /\ PrevRow(i) = 0) => i = 2
          /\ (stdout[i].kind = "row" /\ PrevRow(i) # 0) =>
                ((stdout[i - 1].kind = "block")
                 <=> (BlockUnit(printer, stdout[i].start)
                      # BlockUnit(printer, stdout[PrevRow(i)].start)))

\* C6 witness: three rows were rendered, the second in the block of the
\* first and without a header, the third in another block and with one
C6_Witness ==
    /\ Len(stdout) = 5
    /\ stdout[1].kind = "block" /\ stdout[2].kind = "row"
    /\ stdout[3].kind = "row" /\ stdout[4].kind = "block"
    /\ stdout[5].kind = "row"

\* the direct update calls cell i received
UpdatesOf(i) == {n \in 1..Len(cellLog) : cellLog[n][1] = i}

\* C7 (as claimed): for every aggregate variant update(payload) sets
\* initialized: an aggregate that received no update formats as blank, one
\* that received an update is initialized and formats as non-blank
C7_UpdateSetsInitialized ==
    \A i \in Cells :
        /\ UpdatesOf(i) = {} => Format(accumType, cells[i]) = " "
        /\ UpdatesOf(i) # {} =>
              (cells[i].initialized /\ Format(accumType, cells[i]) # " ")

\* the non-empty tokens of a sequence of entries (token lists), in order
RECURSIVE Tokens(_)
Tokens(entries) ==
    IF entries = <<>> THEN <<>>
    ELSE SelectSeq(Head(entries), LAMBDA t : t # "") \o Tokens(Tail(entries))

\* the non-empty tokens submitted to the open row, in order
RowTokens == Tokens([i \in 1..Len(rowEntries) |-> rowEntries[i].entry])

\* the non-empty tokens submitted to bucket b of the open row
BucketTokens(b) ==
    {t \in {RowTokens[n] : n \in 1..Len(RowTokens)} :
        \E i \in 1..Len(rowEntries) :
            rowEntries[i].d = b
            /\ \E n \in 1..Len(rowEntries[i].entry) : rowEntries[i].entry[n] = t}

\* the position in seq of the first occurrence of t
FirstAt(seq, t) ==
    CHOOSE n \in 1..Len(seq) : seq[n] = t /\ \A k \in 1..(n - 1) : seq[k] # t

\* the 0-based positions of the bits set in mask, among the first n bits
Bits(mask, n) == {i \in 0..(n - 1) : (mask \div Pow2(i)) % 2 = 1}

\* C8: within a row the context gives every distinct non-empty token the
\* index equal to the number of distinct tokens first seen before it, the
\* same for every bucket; each bucket's mask has exactly the bits of the
\* tokens submitted to it; the legend lists the tokens in first-seen order;
\* a new row starts again from an empty list (tokens of earlier rows are
\* not in the list)
C8_TokenIndices ==
    (accumType = "BitmaskAccum" /\ start # None) =>
        LET seen == context.seentoday
            toks == {RowTokens[n] : n \in 1..Len(RowTokens)}
        IN /\ {seen[n] : n \in 1..Len(seen)} = toks
           /\ Len(seen) = Cardinality(toks)
           /\ \A n \in 1..Len(seen) :
                 n - 1 = Cardinality({u \in toks :
                            FirstAt(RowTokens, u) < FirstAt(RowTokens, seen[n])})
           /\ \A b \in 0..(length - 1) :
                 /\ buckets[b + 1].mask < Pow2(Len(seen))
                 /\ Bits(buckets[b + 1].mask, Len(seen))
                       = {n - 1 : n \in {k \in 1..Len(seen) :
                                            seen[k] \in BucketTokens(b)}}
           /\ ContextFormat(context)
                 = ":" \o Join(IF seen # <<>> /\ \A n \in 1..Len(seen) :
                                                     Len(seen[n]) <= 1
                               THEN "" ELSE ",", seen)
           /\ pc = "done" =>
                 stdout[Len(stdout)].legend = ContextFormat(context)

\* C8 witness: in a row opened after another row was rendered, one token
\* was submitted to two buckets and another token was first seen before it
C8_Witness ==
    /\ accumType = "BitmaskAccum" /\ nrows = 2 /\ Len(rowEntries) = 2
    /\ rowEntries[1].d # rowEntries[2].d
    /\ Len(context.seentoday) = 2
    /\ context.seentoday[2] \in BucketTokens(rowEntries[1].d)
    /\ context.seentoday[2] \in BucketTokens(rowEntries[2].d)

\* the bits of cell i
CellBits(i) == Bits(cells[i].mask, Len(cellCtx.seentoday))

\* the characters format renders a hex digit with
HexDigits == {DIGITS[n] : n \in 1..16}

\* C9 (as claimed): the format of a bucket depends on the number of
\* distinct bits of its mask: 1 or 2 bits a quadrant glyph, 3 or 4 bits a
\* hex digit, more than 4 bits the overflow glyph
C9_FormatByBitCount ==
    accumType = "BitmaskAccum" =>
        \A i \in Cells :
            LET n == Cardinality(CellBits(i))
                f == Format(accumType, cells[i])
            IN /\ n \in {1, 2} => f \in {QUADRANTS[k] : k \in 1..4}
               /\ n \in {3, 4} => f \in HexDigits
               /\ n > 4 => f = OVERFLOW

RECURSIVE SumPow2(_)
SumPow2(B) ==
    IF B = {} THEN 0
    ELSE LET i == CHOOSE x \in B : TRUE IN Pow2(i) + SumPow2(B \ {i})

\* C9 (amended): the format of a bucket depends on the highest index among
\* its bits: no bit, the Presence mark; bits among 0 and 1 only, a quadrant
\* glyph; highest bit 2 or 3, the hex digit of the mask; a bit 4 or higher,
\* the overflow glyph (so more than 4 bits always give the overflow glyph)
C9_FormatByHighestBit ==
    accumType = "BitmaskAccum" =>
        \A i \in Cells :
            LET B == CellBits(i)
                f == Format(accumType, cells[i])
            IN /\ cells[i].mask = SumPow2(B)
               /\ B = {} => f = IF UpdatesOf(i) = {} THEN " " ELSE "-"
               /\ B = {0} => f = QUADRANTS[2]
               /\ B = {1} => f = QUADRANTS[3]
               /\ B = {0, 1} => f = QUADRANTS[4]
               /\ (B # {} /\ B \subseteq 0..3 /\ B \cap {2, 3} # {}) =>
                     f = DIGITS[SumPow2(B) + 1]
               /\ (\E b \in B : b >= 4) => f = OVERFLOW
               /\ Cardinality(B) > 4 => f = OVERFLOW

\* C9 witness: a bucket with the two bits 2 and 3 renders the hex digit c
\* next to a bucket with the two bits 0 and 1 that renders the full block
C9_Witness ==
    /\ accumType = "BitmaskAccum"
    /\ \E i \in Cells :
          CellBits(i) = {2, 3} /\ Format(accumType, cells[i]) = "c"
    /\ \E i \in Cells :
          CellBits(i) = {0, 1} /\ Format(accumType, cells[i]) = QUADRANTS[4]

\* the distinct non-empty tokens cell i received
Received(i) ==
    {t \in UNION {{cellLog[n][2][k] : k \in 1..Len(cellLog[n][2])} :
                     n \in UpdatesOf(i)} : t # ""}

\* C10: a bucket that received 5 or more distinct non-empty tokens formats
\* as the one overflow glyph
C10_FiveTokensOverflow ==
    accumType = "BitmaskAccum" =>
        \A i \in Cells :
            Cardinality(Received(i)) >= 5 =>
                (Format(accumType, cells[i]) = OVERFLOW
                 /\ Len(Format(accumType, cells[i])) = 1)

\* C10 witness: a bucket received 5 distinct tokens
C10_Witness ==
    /\ accumType = "BitmaskAccum"
    /\ \E i \in Cells : Cardinality(Received(i)) = 5

\* the (priority, symbol) entries cell i received, in order
EntriesOf(i) ==
    LET own == SelectSeq(cellLog, LAMBDA u : u[1] = i)
    IN [n \in 1..Len(own) |-> own[n][2]]

\* the symbol of the last entry among those of maximum priority
LastOfMax(es) ==
    LET top == CHOOSE n \in 1..Len(es) :
                   /\ \A k \in 1..Len(es) : es[k][1] <= es[n][1]
                   /\ \A k \in (n + 1)..Len(es) : es[k][1] < es[n][1]
    IN es[top][2]

\* C11 (as claimed): after any non-empty sequence of (priority, symbol)
\* updates to one Priority-event bucket, for arbitrary integer priorities,
\* format shows the symbol of the last-submitted entry among those with the
\* maximum priority of the sequence
C11_LastOfMaxPriority ==
    accumType = "PriorityEventsAccum" =>
        \A i \in Cells :
            EntriesOf(i) # <<>> =>
                Format(accumType, cells[i]) = LastOfMax(EntriesOf(i))

RECURSIVE SumOf(_)
SumOf(vs) == IF vs = <<>> THEN 0 ELSE Head(vs) + SumOf(Tail(vs))

\* the running aggregate s holds count, min, max and sum of the values vs
Summarizes(s, vs) ==
    /\ s.count = Len(vs)
    /\ vs = <<>> => (s.min = <<>> /\ s.max = <<>> /\ s.sum = <<>>)
    /\ vs # <<>> =>
          /\ s.sum = <<SumOf(vs)>>
          /\ \E n \in 1..Len(vs) :
                s.min = <<vs[n]>> /\ \A k \in 1..Len(vs) : vs[n] <= vs[k]
          /\ \E n \in 1..Len(vs) :
                s.max = <<vs[n]>> /\ \A k \in 1..Len(vs) : vs[k] <= vs[n]

\* the values folded into any bucket of the row, in order
AllValues == [n \in 1..Len(cellLog) |-> cellLog[n][2]]

\* c is the first character of the string str (of at most three characters,
\* digits after the first)
DecimalDigits == {DIGITS[n] : n \in 1..10}
IsFirstChar(c, str) ==
    /\ c \in DecimalDigits \cup {"-"}
    /\ \E x \in DecimalDigits \cup {""}, y \in DecimalDigits \cup {""} :
          c \o x \o y = str

\* C12: the count, min, max and sum of a Statistics bucket are those of the
\* values folded into it, those of the row context are those of the values
\* folded into all buckets of the row; format is the Presence symbol when
\* no value was folded, else the first character of the maximum rendered
\* in decimal, zero-padded to two digits
C12_StatsOfValues ==
    accumType = "StatsAccum" =>
        /\ Summarizes(cellCtx.stats, AllValues)
        /\ \A i \in Cells :
              /\ Summarizes(cells[i].stat, EntriesOf(i))
              /\ EntriesOf(i) = <<>> =>
                    Format(accumType, cells[i]) = AccumulatorFormat(cells[i])
              /\ EntriesOf(i) # <<>> =>
                    IsFirstChar(Format(accumType, cells[i]),
                                Decimal02(cells[i].stat.max[1]))

\* C12 witness: one bucket folded 10, 25, 7 and formats as 2; the other
\* bucket of the row folded nothing
C12_Witness ==
    /\ accumType = "StatsAccum"
    /\ \E i \in Cells :
          /\ EntriesOf(i) = <<10, 25, 7>>
          /\ cells[i].stat.max = <<25>>
          /\ Format(accumType, cells[i]) = "2"

\* the entry submitted last (its timestamp as Renderer.process hands it on)
Submitted == rowEntries[Len(rowEntries)]

\* C13: a submitted timestamp earlier than the open row's start is handled
\* like a too-late one: the open row is rendered once, as it was before the
\* submit, after the lines already printed; the row is reset to the window
\* containing the earlier timestamp and the entry is its only entry, in the
\* bucket of its sub-interval; nothing is raised
C13_EarlierRollsOver ==
    [][(/\ pc = "reading" /\ start # None
        /\ nread' = nread + 1 /\ line'.match
        /\ Before(Submitted'.ts, start)) =>
           /\ pc' = "reading"
           /\ Len(RowLines') = Len(RowLines) + 1
           /\ SubSeq(stdout', 1, Len(stdout)) = stdout
           /\ stdout'[Len(stdout')].kind = "row"
           /\ stdout'[Len(stdout')].start = start
           /\ stdout'[Len(stdout')].body = Body(accumType, buckets)
           /\ nrows' = nrows + 1
           /\ start' = setRangeFor(printer, Submitted'.ts).start
           /\ InWindow(Submitted'.ts, start', finish')
           /\ Before(start', start)
           /\ rowEntries' = <<[d |-> d', ts |-> Submitted'.ts,
                               entry |-> line'.entry, raw |-> line'.ts]>>
           /\ {k \in 1..length : buckets'[k].initialized} = {d' + 1}
      ]_vars

\* C13 witness: the open row was opened by a timestamp earlier than the
\* start of the row rendered just before it
C13_Witness ==
    /\ pc = "reading" /\ nrows >= 2 /\ Len(rowEntries) = 1
    /\ stdout[Len(stdout)].kind = "row"
    /\ Before(rowEntries[1].ts, stdout[Len(stdout)].start)
    /\ Before(start, stdout[Len(stdout)].start)

\* C14 (as claimed): a line that is unrecognized, or whose timestamp matches
\* the pattern but fails strict validation, is skipped: the pass goes on
\* reading (it is not terminated) and the row and the output are as before
C14_BadLineSkipped ==
    [][(/\ pc = "reading" /\ nread' = nread + 1
        /\ ~line'.match) =>
           (pc' = "reading" /\ UNCHANGED <<rowVars, outVars>>)
      ]_vars

\* C15 (as claimed): for every granularity, a bucket count of zero fails
\* at construction: such a configuration never gets past the constructor
\* to reading entries
C15_ZeroLengthRejected ==
    length = 0 => pc \in {"constructing", "failed"}

\* a timestamp as parsed, with the zone the engine takes it to be in: its
\* own offset, else the input zone, else the local zone
Zoned(ts) ==
    IF ts.tz # <<>> THEN ts
    ELSE [ts EXCEPT !.tz = IF ITZ # <<>> THEN ITZ ELSE <<localtz>>]

\* the output zone
OutputZone == IF OTZ = <<>> THEN <<localtz>> ELSE OTZ

\* the start of the window of a timestamp, by its fields
Truncated(p, ts) ==
    [ts EXCEPT !.second = 0,
               !.minute = IF p = "MinutePrinter" THEN ts.minute ELSE 0,
               !.hour = IF p \in {"MinutePrinter", "HourPrinter"}
                        THEN ts.hour ELSE 0,
               !.day = IF p = "MonthPrinter" THEN 1 ELSE ts.day]

\* C16: a timestamp without offset is taken to be in the input zone (in the
\* local zone when none is configured); every timestamp is converted to the
\* output zone before truncation and bucket resolution: the timestamp the
\* row sees is the same instant with the output zone's offset, the row
\* start is that timestamp truncated in its own fields, the bucket is the
\* one of the elapsed time; two entries of the same instant are in the
\* same row and bucket, whatever their offsets
C16_ZonesNormalized ==
    (pc = "reading" /\ rowEntries # <<>>) =>
        /\ \A i \in 1..Len(rowEntries) :
              LET e == rowEntries[i]
              IN /\ e.ts.tz = OutputZone
                 /\ TotalSeconds(e.ts, Zoned(e.raw)) = 0
                 /\ start = Truncated(printer, e.ts)
                 /\ e.d = (TotalSeconds(e.ts, start) * length) \div duration_s
        /\ \A i, j \in 1..Len(rowEntries) :
              TotalSeconds(Zoned(rowEntries[i].raw), Zoned(rowEntries[j].raw)) = 0
                 => rowEntries[i].d = rowEntries[j].d
        /\ line.match =>
              \A i \in 1..Len(rowEntries) :
                 TotalSeconds(Zoned(line.ts), Zoned(rowEntries[i].raw)) = 0
                    => d = rowEntries[i].d

\* C16 witness: with the input zone UTC and the output zone local, the open
\* row holds the same instant three times: with offset +01:00, with offset
\* +00:00 and without offset; the row's start is in local time
C16_Witness ==
    /\ pc = "reading" /\ ITZ = <<0>> /\ OTZ = <<>> /\ Len(rowEntries) = 3
    /\ rowEntries[1].raw.tz = <<60>>
    /\ rowEntries[2].raw.tz = <<0>>
    /\ rowEntries[3].raw.tz = <<>>
    /\ rowEntries[1].ts = rowEntries[2].ts
    /\ rowEntries[2].ts = rowEntries[3].ts
    /\ rowEntries[3].ts.hour # rowEntries[3].raw.hour
    /\ start.tz = <<localtz>>

\* the length of the open row's window, in seconds
WindowSeconds == TotalSeconds(finish, start)

\* C17 (as claimed): in every state with an open row, for every granularity
\* including month, the bucket duration (kept as numerator and denominator)
\* equals (finish - start) / length
C17_BucketsPartitionWindow ==
    start # None =>
        context.bucket_duration_s[1] * length
            = WindowSeconds * context.bucket_duration_s[2]

\* C17 (amended): the bucket duration is duration_s / length, duration_s
\* the nominal duration of the printer's rows.  For minute, hour and day
\* rows that is (finish - start) / length; for month rows it is 31 days /
\* length while the window is the days of the month, so in a shorter month
\* the buckets partition [start, start + 31 days) and entries only fall
\* into the buckets that begin inside the window
C17_BucketDuration ==
    start # None =>
        /\ context.bucket_duration_s = <<RowDuration(printer), length>>
        /\ duration_s = RowDuration(printer)
        /\ printer # "MonthPrinter" => WindowSeconds = duration_s
        /\ printer = "MonthPrinter" =>
              /\ WindowSeconds = DaysInMonth(start.year, start.month) * 86400
              /\ WindowSeconds <= duration_s
        /\ \A k \in 1..length :
              buckets[k].initialized =>
                  (k - 1) * duration_s < WindowSeconds * length

\* C17 witness: a month row for February 2024 is open: its window is 29
\* days, its bucket duration 31 days / length
C17_Witness ==
    /\ printer = "MonthPrinter" /\ start # None
    /\ start.year = 2024 /\ start.month = 2
    /\ WindowSeconds = 29 * 86400
    /\ context.bucket_duration_s[1] = 31 * 86400
    /\ \E k \in 1..length : buckets[k].initialized

\* the aggregate of all the values of both sequences, at that level
Combined == Fold(probe.level, probe.va \o probe.vb)

\* the attributes the claim names, of those the class of the level has
SameTotals(level, s, t) ==
    /\ s.count = t.count
    /\ level # "Counted" => (s.min = t.min /\ s.max = t.max)
    /\ level \in {"Additive", "Stats"} => s.sum = t.sum
    /\ level = "Stats" => s.sum2 = t.sum2

\* C18 (as claimed): at every level up to Statistics, update(other) merges
\* two partial aggregates: the result holds count, min, max, sum and sum
\* of squares of both together, and merging A into B gives the same as
\* merging B into A
C18_MergeCommutes ==
    probe.called =>
        /\ ~probe.ab.raised /\ ~probe.ba.raised
        /\ ~probe.ab.sumObject /\ ~probe.ba.sumObject
        /\ SameTotals(probe.level, probe.ab.agg, Combined)
        /\ SameTotals(probe.level, probe.ba.agg, Combined)
        /\ SameTotals(probe.level, probe.ab.agg, probe.ba.agg)

\* WebAccum.update ignores the entry: the IP is ignored or the request text
\* is not recognized
Ignored(entry) == entry[1] \in IGNOREIP \/ RqCode(entry[2]) = <<>>

\* C19: a submit through the row marks the resolved bucket initialized by
\* the lookup itself: when the aggregate's update ignores the payload, the
\* bucket is initialized all the same and no longer renders as blank (as
\* the neutral mark when it holds no value), its values and the context
\* are as before, and every other bucket is unchanged (in a new row:
\* every other bucket is a fresh aggregate)
C19_LookupMarks ==
    [][(/\ pc = "reading" /\ nread' = nread + 1 /\ line'.match
        /\ accumType = "WebAccum" /\ Ignored(line'.entry)) =>
           /\ pc' = "reading"
           /\ buckets'[d' + 1].initialized
           /\ Format(accumType, buckets'[d' + 1]) # " "
           /\ buckets'[d' + 1].stat.count = 0 =>
                 Format(accumType, buckets'[d' + 1]) = "-"
           /\ nrows' = nrows =>
                 /\ buckets' = [buckets EXCEPT ![d' + 1].initialized = TRUE]
                 /\ context' = context
           /\ nrows' # nrows =>
                 /\ buckets' = [k \in 1..length |->
                                  IF k = d' + 1
                                  THEN [NewAccum(accumType) EXCEPT
                                           !.initialized = TRUE]
                                  ELSE NewAccum(accumType)]
                 /\ context'.stats = NewStats
      ]_vars

\* C19 witness: the entry submitted last came from an ignored IP; its
\* bucket, which no other entry reached, renders as the neutral mark, a
\* bucket with a counted request renders its status class, the others blank
C19_Witness ==
    /\ accumType = "WebAccum" /\ pc = "reading" /\ line.match
    /\ line.entry[1] \in IGNOREIP
    /\ Len(rowEntries) = 2 /\ rowEntries[1].d # d
    /\ Format(accumType, buckets[d + 1]) = "-"
    /\ Format(accumType, buckets[rowEntries[1].d + 1]) = "2"
    /\ \E k \in 1..length : Format(accumType, buckets[k]) = " "

\* C20: the entry that triggers a rollover is accumulated into the new row
\* only: the old row is rendered with the buckets and the context it had
\* before the submit; the new row has a fresh context and length fresh
\* aggregates, of which exactly the bucket of the entry is initialized and
\* holds the entry alone; the new context holds what the entry alone
\* brings, nothing of the row before
C20_RolloverFresh ==
    [][(/\ pc = "reading" /\ nread' = nread + 1 /\ line'.match
        /\ start # None /\ nrows' # nrows) =>
           /\ pc' = "reading" /\ nrows' = nrows + 1
           /\ SubSeq(stdout', 1, Len(stdout)) = stdout
           /\ stdout'[Len(stdout')].kind = "row"
           /\ stdout'[Len(stdout')].start = start
           /\ stdout'[Len(stdout')].body = Body(accumType, buckets)
           /\ stdout'[Len(stdout')].legend = ContextFormat(context)
           /\ Len(SelectSeq(SubSeq(stdout', Len(stdout) + 1, Len(stdout')),
                            LAMBDA l : l.kind = "row")) = 1
           /\ Len(buckets') = length
           /\ {k \in 1..length : buckets'[k].initialized} = {d' + 1}
           /\ \A k \in (1..length) \ {d' + 1} :
                 buckets'[k] = NewAccum(accumType)
           /\ \E u \in {Update(accumType,
                               [NewAccum(accumType) EXCEPT !.initialized = TRUE],
                               [NewContext(accumType) EXCEPT
                                   !.bucket_duration_s = <<duration_s', length>>],
                               line'.entry)} :
                 buckets'[d' + 1] = u.acc /\ context' = u.ctx
           /\ Len(rowEntries') = 1
      ]_vars

\* C20 witness: a rollover has just happened in a row of token bitmasks:
\* the rendered row had two tokens in its legend, the new row's context
\* holds the one token of the entry that opened it, in one bucket
C20_Witness ==
    /\ accumType = "BitmaskAccum" /\ pc = "reading" /\ nrows = 2
    /\ Len(rowEntries) = 1
    /\ stdout[Len(stdout)].kind = "row"
    /\ stdout[Len(stdout)].legend = ":POST,GET"
    /\ context.seentoday = <<"GET">>
    /\ buckets[d + 1].mask = 1
    /\ Cardinality({k \in 1..length : buckets[k].initialized}) = 1

\* the granularity selected before position at of argv: the class of the
\* last selector before it, the day policy when there is none
RECURSIVE SelectedBefore(_, _)
SelectedBefore(argv, at) ==
    IF at <= 1 THEN "DayPrinter"
    ELSE IF argv[at - 1] \in Selectors THEN SelectorClass(argv[at - 1])
    ELSE SelectedBefore(argv, at - 1)

\* C21 (as claimed): the granularity selector (-m, -d, -H, -M) given before
\* a file name determines the window policy that file is summarized with;
\* without a selector the day policy is used
C21_SelectorDeterminesPolicy ==
    \A k \in 1..Len(probe.summarized) :
        probe.summarized[k].printer
            = SelectedBefore(probe.argv, probe.summarized[k].at)

\* C22 (as claimed): whenever the constructor succeeds and an axis is
\* generated, for every granularity and bucket count, the axis has exactly
\* length characters; every tick label is written at the offset computed
\* for it, ends before the next label begins and within the row
C22_AxisAligned ==
    (pc = "reading" /\ scale # <<>>) =>
        LET sc == scale[1]
        IN /\ Len(sc.text) = length
           /\ \A k \in 1..Len(sc.marks) :
                 /\ sc.marks[k].at = sc.marks[k].pos
                 /\ sc.marks[k].at + Len(sc.marks[k].label) <= length
                 /\ k < Len(sc.marks) =>
                       sc.marks[k].at + Len(sc.marks[k].label)
                           <= sc.marks[k + 1].at

====
